---- MODULE Spec2Model ----
(***************************************************************************)
(* Model of the transcript segmentation and progressive streaming engine   *)
(* of src/livekit-agent/agent.py: the timing estimator, the content        *)
(* classifier, the progressive chunker and the event handlers that the     *)
(* entrypoint registers on the session, with the asyncio tasks they spawn. *)
(*                                                                         *)
(* A text is a sequence of characters, each character a one-character      *)
(* string.  Python's regular expressions are modelled by a small           *)
(* backtracking matcher over such sequences; each pattern of the source is *)
(* written down item by item.                                              *)
(***************************************************************************)
EXTENDS Integers, Sequences, FiniteSets, TLC

\* ------------------------------------------------------------------ bounds

\* Number of session and room events (handler invocations, the disconnect) in
\* one run.
MaxEvents == 2
\* Number of publish_data calls that raise in one run.
MaxFailures == 1
\* Number of words of the utterances the chunker is run on alone.
MaxWords == 3
\* Longest text over TextAlphabet handed to the classifier's functions.
MaxLen == 3

\* ------------------------------------------------------------- characters

\* Absent integer field of a packet or segment (a key the dict does not have).
NoInt == 0 - 1

\* U+00B2, SUPERSCRIPT TWO, as one character.
SUP2 == "sup2"

BSL == "\\"

Digits == {"0", "1", "2", "3", "4", "5", "6", "7", "8", "9"}

LowerLetters ==
  <<"a", "b", "c", "d", "e", "f", "g", "h", "i", "j", "k", "l", "m",
    "n", "o", "p", "q", "r", "s", "t", "u", "v", "w", "x", "y", "z">>

UpperLetters ==
  <<"A", "B", "C", "D", "E", "F", "G", "H", "I", "J", "K", "L", "M",
    "N", "O", "P", "Q", "R", "S", "T", "U", "V", "W", "X", "Y", "Z">>

Range(f) == {f[i] : i \in DOMAIN f}

LowerSet == Range(LowerLetters)
UpperSet == Range(UpperLetters)

LowerOf ==
  [c \in UpperSet |->
     LowerLetters[CHOOSE i \in DOMAIN UpperLetters : UpperLetters[i] = c]]

UpperOf ==
  [c \in LowerSet |->
     UpperLetters[CHOOSE i \in DOMAIN LowerLetters : LowerLetters[i] = c]]

\* str.lower() on one character
Lower(c) == IF c \in UpperSet THEN LowerOf[c] ELSE c

\* str.upper() on one character
Upper(c) == IF c \in LowerSet THEN UpperOf[c] ELSE c

\* str.lower()
lower(t) == [i \in 1..Len(t) |-> Lower(t[i])]

\* Whitespace of str.split(), str.strip() and the regular expressions' \s.
Whitespace == {" ", "\n", "\t"}

\* \w of the regular expressions (of str patterns: U+00B2 is a digit for it)
WordChars == LowerSet \cup UpperSet \cup Digits \cup {"_", SUP2}

\* The function f as an explicit table: its values are computed once.
Table(f) == f @@ <<>>

Min(a, b) == IF a < b THEN a ELSE b
Max(a, b) == IF a > b THEN a ELSE b

\* ------------------------------------------------------ str.split / strip

RECURSIVE SplitAcc(_, _, _)
SplitAcc(t, cur, acc) ==
  IF t = <<>>
  THEN IF cur = <<>> THEN acc ELSE Append(acc, cur)
  ELSE IF Head(t) \in Whitespace
       THEN SplitAcc(Tail(t), <<>>, IF cur = <<>> THEN acc ELSE Append(acc, cur))
       ELSE SplitAcc(Tail(t), Append(cur, Head(t)), acc)

\* text.split(): the whitespace-separated words of a text
split(t) == SplitAcc(t, <<>>, <<>>)

RECURSIVE lstrip(_)
lstrip(t) ==
  IF t # <<>> /\ Head(t) \in Whitespace THEN lstrip(Tail(t)) ELSE t

RECURSIVE rstrip(_)
rstrip(t) ==
  IF t # <<>> /\ t[Len(t)] \in Whitespace
  THEN rstrip(SubSeq(t, 1, Len(t) - 1))
  ELSE t

\* text.strip()
strip(t) == rstrip(lstrip(t))

RECURSIVE join(_, _)
\* sep.join(parts)
join(sep, parts) ==
  IF parts = <<>> THEN <<>>
  ELSE IF Len(parts) = 1 THEN parts[1]
  ELSE parts[1] \o sep \o join(sep, Tail(parts))

\* ------------------------------------------------- regular expressions
\* A pattern is a sequence of alternatives (the | of the pattern); an
\* alternative is a sequence of items.  Items: a character class with a
\* repetition range ("set"), the word boundary \b ("wb"), and the opening and
\* closing of capture group g ("open", "close").  max = NoInt is unbounded.

Cls(s, neg, mn, mx, greedy) ==
  <<[kind |-> "set", s |-> s, neg |-> neg, min |-> mn, max |-> mx,
     greedy |-> greedy, g |-> 0]>>

\* one character of the set s
One(s) == Cls(s, FALSE, 1, 1, TRUE)
\* s?   s*   s+   [^s]+   [^s]*
Opt(s) == Cls(s, FALSE, 0, 1, TRUE)
Star(s) == Cls(s, FALSE, 0, NoInt, TRUE)
Plus(s) == Cls(s, FALSE, 1, NoInt, TRUE)
NotPlus(s) == Cls(s, TRUE, 1, NoInt, TRUE)
NotStar(s) == Cls(s, TRUE, 0, NoInt, TRUE)
\* .*?  (. is every character but the newline)
LazyAny == Cls({"\n"}, TRUE, 0, NoInt, FALSE)
\* a literal string
Lit(str) == [i \in 1..Len(str) |->
               [kind |-> "set", s |-> {str[i]}, neg |-> FALSE, min |-> 1,
                max |-> 1, greedy |-> TRUE, g |-> 0]]
WB == <<[kind |-> "wb", s |-> {}, neg |-> FALSE, min |-> 0, max |-> 0,
         greedy |-> TRUE, g |-> 0]>>
Open(g) == <<[kind |-> "open", s |-> {}, neg |-> FALSE, min |-> 0, max |-> 0,
              greedy |-> TRUE, g |-> g]>>
Close(g) == <<[kind |-> "close", s |-> {}, neg |-> FALSE, min |-> 0, max |-> 0,
               greedy |-> TRUE, g |-> g]>>

\* Number of capture groups a pattern of the source uses at most.
NGroups == 2

NoCaps == [g \in 1..NGroups |-> [from |-> 0, to |-> 0]]

NoMatch == [ok |-> FALSE, start |-> 0, end |-> 0, caps |-> NoCaps]

\* Does character c match the class of item it (ic: re.IGNORECASE)?
InClass(it, c, ic) ==
  LET hit == \/ c \in it.s
             \/ ic /\ (Lower(c) \in it.s \/ Upper(c) \in it.s)
  IN  IF it.neg THEN ~hit ELSE hit

\* \b at position pos (between text[pos-1] and text[pos])
AtWordBoundary(text, pos) ==
  LET before == pos > 1 /\ text[pos - 1] \in WordChars
      after == pos <= Len(text) /\ text[pos] \in WordChars
  IN  before # after

RECURSIVE RunLength(_, _, _, _, _)
\* how many characters from pos on match the class of it, up to limit
RunLength(it, text, pos, ic, limit) ==
  IF limit = 0 \/ pos > Len(text) \/ ~InClass(it, text[pos], ic)
  THEN 0
  ELSE 1 + RunLength(it, text, pos + 1, ic, limit - 1)

\* Definitions below take the value of a sub-computation as a parameter where
\* they use it more than once.

RECURSIVE MatchItems(_, _, _, _, _, _)
RECURSIVE TryCount(_, _, _, _, _, _, _, _)
RECURSIVE TryNext(_, _, _, _, _, _, _, _, _)

\* Match items[k..] at pos: the first match in backtracking order.
MatchItems(items, k, text, pos, caps, ic) ==
  IF k > Len(items)
  THEN [ok |-> TRUE, start |-> 0, end |-> pos, caps |-> caps]
  ELSE IF items[k].kind = "wb"
  THEN IF AtWordBoundary(text, pos)
       THEN MatchItems(items, k + 1, text, pos, caps, ic)
       ELSE NoMatch
  ELSE IF items[k].kind = "open"
  THEN MatchItems(items, k + 1, text, pos,
                  [caps EXCEPT ![items[k].g].from = pos], ic)
  ELSE IF items[k].kind = "close"
  THEN MatchItems(items, k + 1, text, pos,
                  [caps EXCEPT ![items[k].g].to = pos], ic)
  ELSE IF items[k].min = items[k].max
  THEN IF RunLength(items[k], text, pos, ic, items[k].max) = items[k].max
       THEN MatchItems(items, k + 1, text, pos + items[k].max, caps, ic)
       ELSE NoMatch
  ELSE TryCount(items, k, text, pos, caps, ic, NoInt,
                RunLength(items[k], text, pos, ic,
                          IF items[k].max = NoInt THEN Len(text) + 1
                          ELSE items[k].max))

\* Try item k, which matches at most run characters here, with c of them
\* (c = NoInt: with the first count in the item's order: the most when
\* greedy, the least when lazy).
TryCount(items, k, text, pos, caps, ic, c, run) ==
  IF run < items[k].min THEN NoMatch
  ELSE IF c = NoInt
  THEN TryCount(items, k, text, pos, caps, ic,
                IF items[k].greedy THEN run ELSE items[k].min, run)
  ELSE TryNext(items, k, text, pos, caps, ic, c, run,
               MatchItems(items, k + 1, text, pos + c, caps, ic))

\* r is the match of the rest with c repetitions of item k; when it failed,
\* backtrack to the next count in the item's order.
TryNext(items, k, text, pos, caps, ic, c, run, r) ==
  IF r.ok THEN r
  ELSE IF items[k].greedy
       THEN IF c > items[k].min
            THEN TryCount(items, k, text, pos, caps, ic, c - 1, run)
            ELSE NoMatch
       ELSE IF c < run
            THEN TryCount(items, k, text, pos, caps, ic, c + 1, run)
            ELSE NoMatch

RECURSIVE MatchAlts(_, _, _, _, _)
RECURSIVE AltNext(_, _, _, _, _, _)

\* The first alternative of the pattern that matches at pos.
MatchAlts(pat, a, text, pos, ic) ==
  IF a > Len(pat) THEN NoMatch
  ELSE AltNext(pat, a, text, pos, ic,
               MatchItems(pat[a], 1, text, pos, NoCaps, ic))

AltNext(pat, a, text, pos, ic, r) ==
  IF r.ok THEN [r EXCEPT !.start = pos]
  ELSE MatchAlts(pat, a + 1, text, pos, ic)

\* The positions from pos on where the pattern matches.
MatchStarts(pat, text, pos, ic) ==
  {p \in pos..(Len(text) + 1) : MatchAlts(pat, 1, text, p, ic).ok}

FirstMatch(pat, text, ic, starts) ==
  IF starts = {} THEN NoMatch
  ELSE MatchAlts(pat, 1, text,
                 CHOOSE p \in starts : \A q \in starts : p <= q, ic)

\* re.search from position pos on: the leftmost match
SearchFrom(pat, text, pos, ic) ==
  FirstMatch(pat, text, ic, MatchStarts(pat, text, pos, ic))

\* bool(re.search(pattern, text))
re_search(pat, text, ic) == SearchFrom(pat, text, 1, ic).ok

\* match.group(g)
Group(text, m, g) == SubSeq(text, m.caps[g].from, m.caps[g].to - 1)

RECURSIVE FindIterFrom(_, _, _, _)
RECURSIVE FindIterNext(_, _, _, _)

\* re.finditer: the non-overlapping matches, left to right
FindIterFrom(pat, text, pos, ic) ==
  FindIterNext(pat, text, ic, SearchFrom(pat, text, pos, ic))

FindIterNext(pat, text, ic, m) ==
  IF ~m.ok THEN <<>>
  ELSE <<m>> \o FindIterFrom(pat, text,
                             IF m.end > m.start THEN m.end ELSE m.end + 1,
                             ic)

re_finditer(pat, text, ic) == FindIterFrom(pat, text, 1, ic)

\* --------------------------------------------------------- convert_to_latex

\* A replacement template of re.sub is a sequence of pieces: literal text
\* (g = 0) and references \g to a capture group.
Txt(str) == <<[g |-> 0, s |-> str]>>
Ref(g) == <<[g |-> g, s |-> <<>>]>>

RECURSIVE Expand(_, _, _, _)
\* match.expand(repl) from piece k of the template on
Expand(repl, k, text, m) ==
  IF k > Len(repl) THEN <<>>
  ELSE (IF repl[k].g = 0 THEN repl[k].s ELSE Group(text, m, repl[k].g))
       \o Expand(repl, k + 1, text, m)

RECURSIVE SubLoop(_, _, _, _, _)
\* The text re.sub builds from the matches of re.finditer: the text between
\* the matches as it is, each match replaced by the expanded template.
SubLoop(repl, text, matches, k, last_end) ==
  IF k > Len(matches) THEN SubSeq(text, last_end, Len(text))
  ELSE SubSeq(text, last_end, matches[k].start - 1)
       \o Expand(repl, 1, text, matches[k])
       \o SubLoop(repl, text, matches, k + 1, matches[k].end)

\* re.sub(pattern, replacement, text, flags=re.IGNORECASE); no pattern of
\* the source matches the empty string, so the empty text stays empty
re_sub(pat, repl, text) ==
  IF text = <<>> THEN <<>>
  ELSE SubLoop(repl, text, re_finditer(pat, text, TRUE), 1, 1)

\* replacements of convert_to_latex, in the order of the source
replacements ==
  <<
     \* x squared
     [pat |-> << Lit(<<"x", " ", "s", "q", "u", "a", "r", "e", "d">>) >>,
      repl |-> Txt(<<"x", "^", "2">>)],
     \* x cubed
     [pat |-> << Lit(<<"x", " ", "c", "u", "b", "e", "d">>) >>,
      repl |-> Txt(<<"x", "^", "3">>)],
     \* (\w+) squared
     [pat |-> << Open(1) \o Plus(WordChars) \o Close(1)
                 \o Lit(<<" ", "s", "q", "u", "a", "r", "e", "d">>) >>,
      repl |-> Ref(1) \o Txt(<<"^", "2">>)],
     \* (\w+) cubed
     [pat |-> << Open(1) \o Plus(WordChars) \o Close(1)
                 \o Lit(<<" ", "c", "u", "b", "e", "d">>) >>,
      repl |-> Ref(1) \o Txt(<<"^", "3">>)],
     \* (\w+) to the power of (\d+)
     [pat |-> << Open(1) \o Plus(WordChars) \o Close(1)
                 \o Lit(<<" ", "t", "o", " ", "t", "h", "e", " ", "p", "o", "w", "e", "r", " ", "o", "f", " ">>)
                 \o Open(2) \o Plus(Digits) \o Close(2) >>,
      repl |-> Ref(1) \o Txt(<<"^", "{">>) \o Ref(2) \o Txt(<<"}">>)],
     \* (\d+)x\s*\+\s*(\d+)
     [pat |-> << Open(1) \o Plus(Digits) \o Close(1)
                 \o Lit(<<"x">>)
                 \o Star(Whitespace)
                 \o Lit(<<"+">>)
                 \o Star(Whitespace)
                 \o Open(2) \o Plus(Digits) \o Close(2) >>,
      repl |-> Ref(1) \o Txt(<<"x", " ", "+", " ">>) \o Ref(2)],
     \* (\d+)x\s*-\s*(\d+)
     [pat |-> << Open(1) \o Plus(Digits) \o Close(1)
                 \o Lit(<<"x">>)
                 \o Star(Whitespace)
                 \o Lit(<<"-">>)
                 \o Star(Whitespace)
                 \o Open(2) \o Plus(Digits) \o Close(2) >>,
      repl |-> Ref(1) \o Txt(<<"x", " ", "-", " ">>) \o Ref(2)],
     \* (\d+)x\s*equals?\s*(\d+)
     [pat |-> << Open(1) \o Plus(Digits) \o Close(1)
                 \o Lit(<<"x">>)
                 \o Star(Whitespace)
                 \o Lit(<<"e", "q", "u", "a", "l">>) \o Opt({"s"})
                 \o Star(Whitespace)
                 \o Open(2) \o Plus(Digits) \o Close(2) >>,
      repl |-> Ref(1) \o Txt(<<"x", " ", "=", " ">>) \o Ref(2)],
     \* equals?\s*(\d+)
     [pat |-> << Lit(<<"e", "q", "u", "a", "l">>) \o Opt({"s"})
                 \o Star(Whitespace)
                 \o Open(1) \o Plus(Digits) \o Close(1) >>,
      repl |-> Txt(<<"=", " ">>) \o Ref(1)],
     \* is equal to\s*(\d+)
     [pat |-> << Lit(<<"i", "s", " ", "e", "q", "u", "a", "l", " ", "t", "o">>)
                 \o Star(Whitespace)
                 \o Open(1) \o Plus(Digits) \o Close(1) >>,
      repl |-> Txt(<<"=", " ">>) \o Ref(1)],
     \* square root of ([^\s,]+)
     [pat |-> << Lit(<<"s", "q", "u", "a", "r", "e", " ", "r", "o", "o", "t", " ", "o", "f", " ">>)
                 \o Open(1) \o NotPlus(Whitespace \cup {","}) \o Close(1) >>,
      repl |-> Txt(<<BSL, "s", "q", "r", "t", "{">>) \o Ref(1) \o Txt(<<"}">>)],
     \* sqrt\s*\(([^)]+)\)
     [pat |-> << Lit(<<"s", "q", "r", "t">>)
                 \o Star(Whitespace)
                 \o Lit(<<"(">>)
                 \o Open(1) \o NotPlus({")"}) \o Close(1)
                 \o Lit(<<")">>) >>,
      repl |-> Txt(<<BSL, "s", "q", "r", "t", "{">>) \o Ref(1) \o Txt(<<"}">>)],
     \* (\d+) over (\d+)
     [pat |-> << Open(1) \o Plus(Digits) \o Close(1)
                 \o Lit(<<" ", "o", "v", "e", "r", " ">>)
                 \o Open(2) \o Plus(Digits) \o Close(2) >>,
      repl |-> Txt(<<BSL, "f", "r", "a", "c", "{">>) \o Ref(1) \o Txt(<<"}", "{">>) \o Ref(2) \o Txt(<<"}">>)],
     \* ([^\s]+) over ([^\s]+)
     [pat |-> << Open(1) \o NotPlus(Whitespace) \o Close(1)
                 \o Lit(<<" ", "o", "v", "e", "r", " ">>)
                 \o Open(2) \o NotPlus(Whitespace) \o Close(2) >>,
      repl |-> Txt(<<BSL, "f", "r", "a", "c", "{">>) \o Ref(1) \o Txt(<<"}", "{">>) \o Ref(2) \o Txt(<<"}">>)],
     \* fraction ([^\s]+) over ([^\s]+)
     [pat |-> << Lit(<<"f", "r", "a", "c", "t", "i", "o", "n", " ">>)
                 \o Open(1) \o NotPlus(Whitespace) \o Close(1)
                 \o Lit(<<" ", "o", "v", "e", "r", " ">>)
                 \o Open(2) \o NotPlus(Whitespace) \o Close(2) >>,
      repl |-> Txt(<<BSL, "f", "r", "a", "c", "{">>) \o Ref(1) \o Txt(<<"}", "{">>) \o Ref(2) \o Txt(<<"}">>)],
     \* sine of ([^\s,]+)
     [pat |-> << Lit(<<"s", "i", "n", "e", " ", "o", "f", " ">>)
                 \o Open(1) \o NotPlus(Whitespace \cup {","}) \o Close(1) >>,
      repl |-> Txt(<<BSL, "s", "i", "n", "(">>) \o Ref(1) \o Txt(<<")">>)],
     \* cosine of ([^\s,]+)
     [pat |-> << Lit(<<"c", "o", "s", "i", "n", "e", " ", "o", "f", " ">>)
                 \o Open(1) \o NotPlus(Whitespace \cup {","}) \o Close(1) >>,
      repl |-> Txt(<<BSL, "c", "o", "s", "(">>) \o Ref(1) \o Txt(<<")">>)],
     \* tangent of ([^\s,]+)
     [pat |-> << Lit(<<"t", "a", "n", "g", "e", "n", "t", " ", "o", "f", " ">>)
                 \o Open(1) \o NotPlus(Whitespace \cup {","}) \o Close(1) >>,
      repl |-> Txt(<<BSL, "t", "a", "n", "(">>) \o Ref(1) \o Txt(<<")">>)],
     \* \balpha\b
     [pat |-> << WB
                 \o Lit(<<"a", "l", "p", "h", "a">>)
                 \o WB >>,
      repl |-> Txt(<<BSL, "a", "l", "p", "h", "a">>)],
     \* \bbeta\b
     [pat |-> << WB
                 \o Lit(<<"b", "e", "t", "a">>)
                 \o WB >>,
      repl |-> Txt(<<BSL, "b", "e", "t", "a">>)],
     \* \bgamma\b
     [pat |-> << WB
                 \o Lit(<<"g", "a", "m", "m", "a">>)
                 \o WB >>,
      repl |-> Txt(<<BSL, "g", "a", "m", "m", "a">>)],
     \* \bdelta\b
     [pat |-> << WB
                 \o Lit(<<"d", "e", "l", "t", "a">>)
                 \o WB >>,
      repl |-> Txt(<<BSL, "d", "e", "l", "t", "a">>)],
     \* \btheta\b
     [pat |-> << WB
                 \o Lit(<<"t", "h", "e", "t", "a">>)
                 \o WB >>,
      repl |-> Txt(<<BSL, "t", "h", "e", "t", "a">>)],
     \* \bpi\b
     [pat |-> << WB
                 \o Lit(<<"p", "i">>)
                 \o WB >>,
      repl |-> Txt(<<BSL, "p", "i">>)],
     \* \s+
     [pat |-> << Plus(Whitespace) >>,
      repl |-> Txt(<<" ">>)]
  >>

RECURSIVE ApplyReplacements(_, _)
\* for pattern, replacement in replacements: latex = re.sub(...); every
\* re.sub of the loop leaves the empty text empty
ApplyReplacements(latex, k) ==
  IF latex = <<>> \/ k > Len(replacements) THEN latex
  ELSE ApplyReplacements(
         re_sub(replacements[k].pat, replacements[k].repl, latex), k + 1)

\* convert_to_latex
convert_to_latex(text) == strip(ApplyReplacements(text, 1))

\* ------------------------------------------------------------ classifier



\* math_indicators of detect_math_patterns, in the order of the source
math_indicators ==
  << \* x\^2|x squared|x²
     << Lit(<<"x", "^", "2">>),
        Lit(<<"x", " ", "s", "q", "u", "a", "r", "e", "d">>),
        Lit(<<"x", SUP2>>) >>,
     \* \\frac\{[^}]+\}\{[^}]+\}
     << Lit(<<BSL, "f", "r", "a", "c", "{">>) \o NotPlus({"}"})
        \o Lit(<<"}", "{">>) \o NotPlus({"}"}) \o Lit(<<"}">>) >>,
     \* \\sqrt\{[^}]+\}
     << Lit(<<BSL, "s", "q", "r", "t", "{">>) \o NotPlus({"}"})
        \o Lit(<<"}">>) >>,
     \* \d+x\s*[+-]\s*\d+
     << Plus(Digits) \o Lit(<<"x">>) \o Star(Whitespace) \o One({"+", "-"})
        \o Star(Whitespace) \o Plus(Digits) >>,
     \* equals?\s+\d+|=\s*\d+
     << Lit(<<"e", "q", "u", "a", "l">>) \o Opt({"s"}) \o Plus(Whitespace)
        \o Plus(Digits),
        Lit(<<"=">>) \o Star(Whitespace) \o Plus(Digits) >>,
     \* square root|sqrt
     << Lit(<<"s", "q", "u", "a", "r", "e", " ", "r", "o", "o", "t">>),
        Lit(<<"s", "q", "r", "t">>) >>,
     \* fraction|over|divided by
     << Lit(<<"f", "r", "a", "c", "t", "i", "o", "n">>),
        Lit(<<"o", "v", "e", "r">>),
        Lit(<<"d", "i", "v", "i", "d", "e", "d", " ", "b", "y">>) >>,
     \* quadratic|polynomial
     << Lit(<<"q", "u", "a", "d", "r", "a", "t", "i", "c">>),
        Lit(<<"p", "o", "l", "y", "n", "o", "m", "i", "a", "l">>) >>,
     \* equation|formula
     << Lit(<<"e", "q", "u", "a", "t", "i", "o", "n">>),
        Lit(<<"f", "o", "r", "m", "u", "l", "a">>) >>,
     \* \$[^$]+\$
     << Lit(<<"$">>) \o NotPlus({"$"}) \o Lit(<<"$">>) >>,
     \* \\[a-zA-Z]+\{
     << Lit(<<BSL>>) \o Plus(LowerSet \cup UpperSet) \o Lit(<<"{">>) >>,
     \* \b[a-z]\s*=\s*[^\s]+
     << WB \o One(LowerSet) \o Star(Whitespace) \o Lit(<<"=">>) \o Star(Whitespace)
        \o NotPlus(Whitespace) >>,
     \* \([^)]*[+\-*/=][^)]*\)
     << Lit(<<"(">>) \o NotStar({")"}) \o One({"+", "-", "*", "/", "="})
        \o NotStar({")"}) \o Lit(<<")">>) >>
  >>

\* has_math of detect_math_patterns
has_math(text) ==
  \E p \in DOMAIN math_indicators : re_search(math_indicators[p], text, TRUE)

\* (pattern, confidence) pairs of calculate_math_confidence; confidences in
\* hundredths
confidence_indicators ==
  << \* \\frac|\\sqrt|\\sum
     [pat |-> << Lit(<<BSL, "f", "r", "a", "c">>),
                 Lit(<<BSL, "s", "q", "r", "t">>),
                 Lit(<<BSL, "s", "u", "m">>) >>, conf |-> 95],
     \* x\^2|x²|squared
     [pat |-> << Lit(<<"x", "^", "2">>), Lit(<<"x", SUP2>>),
                 Lit(<<"s", "q", "u", "a", "r", "e", "d">>) >>, conf |-> 90],
     \* equation|formula
     [pat |-> << Lit(<<"e", "q", "u", "a", "t", "i", "o", "n">>),
                 Lit(<<"f", "o", "r", "m", "u", "l", "a">>) >>, conf |-> 80],
     \* =\s*\d+
     [pat |-> << Lit(<<"=">>) \o Star(Whitespace) \o Plus(Digits) >>, conf |-> 85],
     \* \$[^$]+\$
     [pat |-> << Lit(<<"$">>) \o NotPlus({"$"}) \o Lit(<<"$">>) >>,
      conf |-> 95]
  >>

RECURSIVE MaxConfidence_sum(_, _, _)
\* MaxConfidence adding the matched values up instead of taking the maximum
MaxConfidence_sum(text, k, max_confidence) ==
  IF k > Len(confidence_indicators) THEN max_confidence
  ELSE MaxConfidence_sum(text, k + 1,
         IF re_search(confidence_indicators[k].pat, text, TRUE)
         THEN max_confidence + confidence_indicators[k].conf
         ELSE max_confidence)

RECURSIVE MaxConfidence(_, _, _)
\* the loop of calculate_math_confidence from mapping k on
MaxConfidence(text, k, max_confidence) ==
  IF k > Len(confidence_indicators) THEN max_confidence
  ELSE MaxConfidence(text, k + 1,
         IF re_search(confidence_indicators[k].pat, text, TRUE)
         THEN Max(max_confidence, confidence_indicators[k].conf)
         ELSE max_confidence)

\* calculate_math_confidence, in hundredths; the base confidence is 0.5
calculate_math_confidence(text) == MaxConfidence(text, 1, 50)

\* Absent text field of a segment (a key the dict does not have).
NoText == <<"None">>

\* A segment dict.  Keys a dict does not have: latex is NoText, confidence
\* and chunk_index are NoInt, source is "", streaming and enhanced are FALSE.
Segment(type, content, latex, confidence, source, enhanced) ==
  [type |-> type, content |-> content, latex |-> latex,
   confidence |-> confidence, source |-> source, enhanced |-> enhanced,
   streaming |-> FALSE, chunk_index |-> NoInt, total_estimated |-> NoInt]

\* detect_math_patterns: one math segment or one text segment
detect_math_patterns(text) ==
  IF has_math(text)
  THEN <<Segment("math", text, convert_to_latex(text),
                 calculate_math_confidence(text), "", TRUE)>>
  ELSE <<Segment("text", text, NoText, NoInt, "", FALSE)>>

\* latex_pattern of process_mixed_content: \$\$?(.*?)\$\$?
latex_pattern ==
  << Lit(<<"$">>) \o Opt({"$"}) \o Open(1) \o LazyAny \o Close(1)
     \o Lit(<<"$">>) \o Opt({"$"}) >>

\* if text_before: segments.extend(detect_math_patterns(text_before))
DetectIfAny(text_before) ==
  IF text_before # <<>> THEN detect_math_patterns(text_before) ELSE <<>>

\* the segments of the text text[from..to-1] between two delimited spans
SegmentsBetween(text, from, to) ==
  IF to > from THEN DetectIfAny(strip(SubSeq(text, from, to - 1))) ELSE <<>>

\* the math segment of one delimited span
LatexSegment(latex_content) ==
  Segment("math", <<"$">> \o latex_content \o <<"$">>, latex_content, 98,
          "latex_delimited", FALSE)

RECURSIVE MixedLoop(_, _, _, _, _)
\* the loop of process_mixed_content over the delimited spans, and the
\* remaining text after the last one
MixedLoop(text, matches, k, last_end, segments) ==
  IF k > Len(matches)
  THEN segments \o SegmentsBetween(text, last_end, Len(text) + 1)
  ELSE MixedLoop(text, matches, k + 1, matches[k].end,
         segments \o SegmentsBetween(text, last_end, matches[k].start)
         \o <<LatexSegment(Group(text, matches[k], 1))>>)

\* [seg for seg in segments if seg.get("content", "").strip()]
FilterEmpty(segments) ==
  SelectSeq(segments, LAMBDA seg : strip(seg.content) # <<>>)

\* segments if segments else [{"type": "text", "content": text}]
OrText(segments, text) ==
  IF segments # <<>> THEN segments
  ELSE <<Segment("text", text, NoText, NoInt, "", FALSE)>>

\* if not segments: segments = detect_math_patterns(text)
OrDetect(segments, text) ==
  IF segments = <<>> THEN detect_math_patterns(text) ELSE segments

\* process_mixed_content
process_mixed_content(text) ==
  IF text = <<>> \/ strip(text) = <<>>
  THEN <<Segment("text", text, NoText, NoInt, "", FALSE)>>
  ELSE OrText(
         FilterEmpty(
           OrDetect(MixedLoop(text, re_finditer(latex_pattern, text, FALSE),
                              1, 1, <<>>),
                    text)),
         text)

\* ------------------------------------------------------- TimingEstimator

\* TimingEstimator.__init__: words_per_minute = 150
words_per_minute == 150

\* A rate in milliseconds per word, as the exact fraction num/den.
\* TimingEstimator.__init__: self.ms_per_word = 60000 / words_per_minute
InitialRate == [num |-> 60000, den |-> words_per_minute]

\* TimingEstimator._is_math: re.search(r'[\d\+\-\*\/\=\^\(\)]', word)
is_math(word) ==
  re_search(<<One(Digits \cup {"+", "-", "*", "/", "=", "^", "(", ")"})>>,
            word, FALSE)

\* The rate estimate_word_timings leaves in self.ms_per_word.  audio_duration
\* is in milliseconds here (the source has seconds and multiplies by 1000);
\* 0 stands for None and for 0.0, which the source's test treats alike.
RateAfter(ms_per_word, words, audio_duration) ==
  IF audio_duration # 0
  THEN IF words # <<>>
       THEN [num |-> audio_duration, den |-> Len(words)]
       ELSE [num |-> 200, den |-> 1]
  ELSE ms_per_word

RECURSIVE TimingLoop_from_index(_, _, _, _, _)
\* TimingLoop with startTime taken from the index of the word at the plain
\* rate, not from current_time
TimingLoop_from_index(rate, words, k, current_time, confidence) ==
  IF k > Len(words) THEN <<>>
  ELSE LET word == words[k]
           duration == IF is_math(word) THEN 3 * rate.num ELSE 2 * rate.num
       IN  <<[word |-> word,
              startTime |-> ((k - 1) * 2 * rate.num) \div (2 * rate.den),
              endTime |-> (current_time + duration) \div (2 * rate.den),
              confidence |-> confidence,
              isMath |-> is_math(word)]>>
           \o TimingLoop_from_index(rate, words, k + 1,
                                    current_time + duration, confidence)

RECURSIVE TimingLoop_plain_rate(_, _, _, _, _)
\* TimingLoop giving a math word the duration of a plain word
TimingLoop_plain_rate(rate, words, k, current_time, confidence) ==
  IF k > Len(words) THEN <<>>
  ELSE <<[word |-> words[k],
          startTime |-> current_time \div (2 * rate.den),
          endTime |-> (current_time + 2 * rate.num) \div (2 * rate.den),
          confidence |-> confidence,
          isMath |-> is_math(words[k])]>>
       \o TimingLoop_plain_rate(rate, words, k + 1,
                                current_time + 2 * rate.num, confidence)

RECURSIVE TimingLoop(_, _, _, _, _)
\* The loop of estimate_word_timings.  current_time is counted in units of
\* 1/(2*den) ms, so that a plain word adds 2*num and a math word 3*num
\* (duration = ms_per_word * 1.5); int() is the floor of a value >= 0.
TimingLoop(rate, words, k, current_time, confidence) ==
  IF k > Len(words) THEN <<>>
  ELSE LET word == words[k]
           duration == IF is_math(word) THEN 3 * rate.num ELSE 2 * rate.num
       IN  <<[word |-> word,
              startTime |-> current_time \div (2 * rate.den),
              endTime |-> (current_time + duration) \div (2 * rate.den),
              confidence |-> confidence,
              isMath |-> is_math(word)]>>
           \o TimingLoop(rate, words, k + 1, current_time + duration,
                         confidence)

\* TimingEstimator.estimate_word_timings: the list it returns
estimate_word_timings(ms_per_word, text, audio_duration) ==
  LET words == split(text)
      rate == RateAfter(ms_per_word, words, audio_duration)
  IN  TimingLoop(rate, words, 1, 0,
                 IF audio_duration # 0 THEN 80 ELSE 60)

\* the operators parse_math_fragments splits on: [\+\-\*\/\=]
operators == {"+", "-", "*", "/", "="}

\* (\s*[\+\-\*\/\=]\s*)
split_pattern ==
  << Open(1) \o Star(Whitespace) \o One(operators) \o Star(Whitespace)
     \o Close(1) >>

RECURSIVE SplitParts(_, _, _, _)
\* re.split with one capture group: the text between the matches and the
\* text of each match, in order
SplitParts(text, matches, k, last_end) ==
  IF k > Len(matches) THEN <<SubSeq(text, last_end, Len(text))>>
  ELSE <<SubSeq(text, last_end, matches[k].start - 1),
         Group(text, matches[k], 1)>>
       \o SplitParts(text, matches, k + 1, matches[k].end)

\* parts = [p for p in re.split(...) if p.strip()]
Parts(latex) ==
  SelectSeq(SplitParts(latex, re_finditer(split_pattern, latex, FALSE), 1, 1),
            LAMBDA part : strip(part) # <<>>)

\* duration = 200 if re.match(r'^[\+\-\*\/\=]$', part.strip()) else 400
FragmentDuration(stripped) ==
  IF Len(stripped) = 1 /\ stripped[1] \in operators THEN 200 ELSE 400

RECURSIVE FragmentTimings(_, _, _)
\* the timings list of parse_math_fragments from part k on
FragmentTimings(parts, k, current_time) ==
  IF k > Len(parts) THEN <<>>
  ELSE <<current_time>>
       \o FragmentTimings(parts, k + 1,
                          current_time + FragmentDuration(strip(parts[k])))

\* mathFragments = None
NoFragments == [fragments |-> <<>>, timings |-> <<>>, fullLatex |-> NoText]

\* TimingEstimator.parse_math_fragments, parts being its list of fragments
FragmentsOf(latex, parts) ==
  [fragments |-> parts, timings |-> FragmentTimings(parts, 1, 0),
   fullLatex |-> latex]

parse_math_fragments(latex) == FragmentsOf(latex, Parts(latex))

\* ------------------------------------------------------------ the chunker

\* stream_teacher_response_progressively: chunk_size = 3
chunk_size == 3
\* chunk_delay = 0.08, in milliseconds
normal_delay == 80
\* chunk_delay = 0.15 after punctuation, in milliseconds
pause_delay == 150

\* word.endswith(('.', '!', '?', ',', ';', ':'))
punctuation == {".", "!", "?", ",", ";", ":"}

\* ['equation', 'formula', 'equals', 'x²', 'sqrt']
math_triggers ==
  { <<"e", "q", "u", "a", "t", "i", "o", "n">>,
    <<"f", "o", "r", "m", "u", "l", "a">>,
    <<"e", "q", "u", "a", "l", "s">>,
    <<"x", SUP2>>,
    <<"s", "q", "r", "t">> }

\* sub in word
Contains(word, sub) ==
  \E p \in 1..(Len(word) - Len(sub) + 1) :
     SubSeq(word, p, p + Len(sub) - 1) = sub

\* Boundary without the branch of the punctuation
Boundary_no_punct(words, i, word, current_chunk) ==
  IF Len(split(current_chunk)) >= chunk_size THEN "size"
  ELSE IF \E indicator \in math_triggers : Contains(lower(word), indicator)
       THEN "math"
  ELSE IF i = Len(words) THEN "last"
  ELSE "none"

\* Boundary without the branch of the math indicators
Boundary_no_math(words, i, word, current_chunk) ==
  IF Len(split(current_chunk)) >= chunk_size THEN "size"
  ELSE IF word # <<>> /\ word[Len(word)] \in punctuation THEN "punct"
  ELSE IF i = Len(words) THEN "last"
  ELSE "none"

\* Boundary without the branch of the chunk size
Boundary_no_size(words, i, word, current_chunk) ==
  IF word # <<>> /\ word[Len(word)] \in punctuation THEN "punct"
  ELSE IF \E indicator \in math_triggers : Contains(lower(word), indicator)
       THEN "math"
  ELSE IF i = Len(words) THEN "last"
  ELSE "none"

\* The if/elif chain of the loop body for word = words[i], after the word
\* was added to the chunk: the branch that sets should_send_chunk, or "none".
\* (i counts from 1 here: the source's i == len(words) - 1 is i = Len(words).)
Boundary(words, i, word, current_chunk) ==
  IF Len(split(current_chunk)) >= chunk_size THEN "size"
  ELSE IF word # <<>> /\ word[Len(word)] \in punctuation THEN "punct"
  ELSE IF \E indicator \in math_triggers : Contains(lower(word), indicator)
       THEN "math"
  ELSE IF i = Len(words) THEN "last"
  ELSE "none"

\* current_chunk += (" " if current_chunk else "") + word
AddWord(current_chunk, word) ==
  current_chunk \o (IF current_chunk # <<>> THEN <<" ">> ELSE <<>>) \o word

RECURSIVE Accumulate(_, _, _, _)
RECURSIVE AccumulateWord(_, _, _, _, _)

\* The loop from words[i] on, until a chunk is to be sent (send) or the words
\* run out.
Accumulate(words, i, current_chunk, chunk_delay) ==
  IF i > Len(words)
  THEN [i |-> i, current_chunk |-> current_chunk,
        chunk_delay |-> chunk_delay, send |-> FALSE, rule |-> "none"]
  ELSE AccumulateWord(words, i, AddWord(current_chunk, words[i]), chunk_delay,
                      Boundary(words, i, words[i],
                               AddWord(current_chunk, words[i])))

\* The rest of the loop body for words[i]: rule is the branch taken;
\* if should_send_chunk and current_chunk.strip(): the chunk is sent
AccumulateWord(words, i, current_chunk, chunk_delay, rule) ==
  IF rule # "none" /\ strip(current_chunk) # <<>>
  THEN [i |-> i, current_chunk |-> current_chunk,
        chunk_delay |-> IF rule = "punct" THEN pause_delay ELSE chunk_delay,
        send |-> TRUE, rule |-> rule]
  ELSE Accumulate(words, i + 1, current_chunk,
                  IF rule = "punct" THEN pause_delay ELSE chunk_delay)

\* Tagged with the counter left out: every segment is given index 0
Tagged_index_zero(segment, chunks_sent, words) ==
  [segment EXCEPT !.streaming = TRUE,
                  !.chunk_index = 0,
                  !.total_estimated = Len(words) \div chunk_size]

\* Tagged with the estimate rounded up
Tagged_estimate_ceiling(segment, chunks_sent, words) ==
  [segment EXCEPT !.streaming = TRUE,
                  !.chunk_index = chunks_sent,
                  !.total_estimated =
                     (Len(words) + chunk_size - 1) \div chunk_size]

\* segment['streaming'], ['chunk_index'], ['total_estimated'] as the chunker
\* sets them before it publishes the segment
Tagged(segment, chunks_sent, words) ==
  [segment EXCEPT !.streaming = TRUE,
                  !.chunk_index = chunks_sent,
                  !.total_estimated = Len(words) \div chunk_size]

\* ------------------------------------------------------------------ inputs

T_empty == <<>>
T_blank == <<" ">>
T_hi == <<"h", "i">>
\* "a b c d": two chunks, "a b c" and "d"
T_abcd == <<"a", " ", "b", " ", "c", " ", "d">>
\* "a $x$ b": one chunk of three segments
T_mix == <<"a", " ", "$", "x", "$", " ", "b">>

\* event.item.role
Roles == {"assistant", "user", "system"}

\* event.item of conversation_item_added: text_content and content; <<>> is
\* None or the empty string (both false in the handler's tests)
Item(role, text_content, content) ==
  [role |-> role, text_content |-> text_content, content |-> content]

Items ==
  {Item("assistant", t, T_empty) : t \in {T_empty, T_blank, T_abcd, T_mix}}
  \cup {Item("user", T_blank, T_empty), Item("user", T_empty, T_hi),
        Item("system", T_hi, T_empty)}

\* event.transcript of user_input_transcribed
UserTranscripts == {T_empty, T_hi}
\* event.transcript of output_audio_transcribed
OutputTranscripts == {T_mix}
\* event.delta of output_audio_transcription_delta
Deltas == {T_empty, T_hi}

\* words of the utterances the chunker is run on alone: plain, ending in
\* punctuation, and holding a math indicator in lower and in upper case
Vocabulary ==
  { <<"a">>, <<"b", ".">>, <<"c", ",">>, <<"s", "q", "r", "t">>,
    <<"X", SUP2>> }

\* "Great question! The square root of 16 is 4."
T_scenario3 ==
  <<"G", "r", "e", "a", "t", " ", "q", "u", "e", "s", "t", "i", "o", "n", "!",
    " ", "T", "h", "e", " ", "s", "q", "u", "a", "r", "e", " ", "r", "o", "o",
    "t", " ", "o", "f", " ", "1", "6", " ", "i", "s", " ", "4", ".">>

\* full_response of the chunker run alone: up to MaxWords words of the
\* vocabulary, and the utterance of scenario 3
ChunkerTexts ==
  {join(<<" ">>, words) :
     words \in UNION {[1..n -> Vocabulary] : n \in 1..MaxWords}}
  \cup {T_scenario3}

\* inputs of the direct calls of timing_estimator.estimate_word_timings
T_x2 == <<"x", "^", "2", " ", "i", "s">>
\* "1 2 3 4": four words, each one math for _is_math
T_1234 == <<"1", " ", "2", " ", "3", " ", "4">>
TimingTexts == {T_empty, T_blank, T_hi, T_x2, T_mix, T_abcd, T_1234}
\* audio_duration in milliseconds; 0 is None
AudioDurations == {0, 500, 1000, 2000, 3000}

RECURSIVE ChunksFrom(_, _)
RECURSIVE ChunksNext(_, _)

\* current_chunk.strip() of every chunk the loop sends from words[i] on
ChunksFrom(words, i) ==
  ChunksNext(words, Accumulate(words, i, <<>>, normal_delay))

\* acc being the loop's state at the next chunk it sends, or at its end
ChunksNext(words, acc) ==
  IF acc.send
  THEN {strip(acc.current_chunk)} \cup ChunksFrom(words, acc.i + 1)
  ELSE {}

\* the texts the handlers and the chunker can pass to process_mixed_content
MixedTexts ==
  OutputTranscripts
  \cup UNION {ChunksFrom(split(item.text_content), 1) : item \in Items}
  \cup UNION {ChunksFrom(split(item.content), 1) : item \in Items}
  \cup UNION {ChunksFrom(split(text), 1) : text \in ChunkerTexts}

\* process_mixed_content on each of these texts, computed once
mixed_content ==
  Table([text \in MixedTexts |-> process_mixed_content(text)])

\* the texts the handlers can pass to publish_transcript
\* "x = 2"
T_x_is_2 == <<"x", " ", "=", " ", "2">>

\* the texts of the direct calls of publish_transcript
DirectTexts == {T_empty, T_hi, T_abcd, T_x2, T_x_is_2, T_mix}

\* the speakers of the direct calls of publish_transcript
Speakers == {"teacher", "ai", "student"}

TranscriptTexts ==
  UserTranscripts \cup {item.text_content : item \in Items}
  \cup {item.content : item \in Items} \cup DirectTexts

\* detect_math_patterns on each of these texts, computed once
math_patterns ==
  Table([text \in TranscriptTexts |-> detect_math_patterns(text)])

\* ------------------------------------------------------------------- state

VARIABLES
  connected,    \* ctx.room.connection_state == CONN_CONNECTED
  tasks,        \* the tasks made by asyncio.create_task, in creation order
  wire,         \* the publish_data calls handed to the transport, in order
  events,       \* number of session events handled so far
  in_flight,    \* the stream tasks that were mid-stream at the disconnect
  failures,     \* number of publish_data calls that raised
  ms_per_word,  \* timing_estimator.ms_per_word
  last_call,    \* the last direct call of estimate_word_timings
  text_call     \* the last direct call of a function of the classifier

vars ==
  <<connected, tasks, wire, events, in_flight, failures, ms_per_word,
    last_call, text_call>>

room_vars == <<connected, tasks, wire, events, in_flight, failures>>

\* A task made by a handler of the session event `event`: kind names its
\* coroutine, speaker and text are the values the coroutine closes over, the
\* other fields are the coroutine's position and locals.
Task(event, kind, speaker, text) ==
  [event |-> event, kind |-> kind, speaker |-> speaker, text |-> text,
   pc |-> "start",
   words |-> <<>>, i |-> 0, current_chunk |-> <<>>,
   chunk_delay |-> normal_delay, chunks_sent |-> 0,
   segments |-> <<>>, j |-> 0, outcome |-> "running"]

\* One publish_data call.  timed: wordTimings is a list (not null, not
\* absent).  ok: the call returned; otherwise it raised.
Packet(t, type, speaker, segments, delta, total_chunks, timed, timings, ok) ==
  [task |-> t, type |-> type, speaker |-> speaker, segments |-> segments,
   delta |-> delta, total_chunks |-> total_chunks, timed |-> timed,
   wordTimings |-> timings, mathFragments |-> NoFragments, ok |-> ok,
   connected |-> connected]

Init ==
  /\ connected = TRUE
  /\ tasks = <<>>
  /\ wire = <<>>
  /\ events = 0
  /\ in_flight = {}
  /\ failures = 0
  /\ ms_per_word = InitialRate
  /\ last_call = [called |-> FALSE, text |-> <<>>, audio_duration |-> 0,
                  timings |-> <<>>]
  /\ text_call = [fn |-> "", text |-> <<>>, segments |-> <<>>,
                  latex |-> NoText, of_result |-> FALSE]

\* asyncio.create_task
create_task(task) ==
  /\ tasks' = Append(tasks, task)
  /\ events' = events + 1
  /\ UNCHANGED <<connected, wire, in_flight, failures, ms_per_word, last_call, text_call>>

\* the handler returns without making a task
no_task ==
  /\ events' = events + 1
  /\ UNCHANGED <<connected, tasks, wire, in_flight, failures, ms_per_word,
               last_call, text_call>>

\* ---------------------------------------------------------------- handlers

\* @session.on("output_audio_transcribed")
on_output_transcribed(transcript) ==
  /\ events < MaxEvents
  /\ create_task(Task("output_audio_transcribed", "realtime", "teacher",
                      transcript))

\* on_output_delta handing the delta to _publish_realtime, which classifies it
on_output_delta_classified(delta) ==
  /\ events < MaxEvents
  /\ IF delta # <<>>
     THEN create_task(Task("output_audio_transcription_delta", "realtime",
                           "teacher", delta))
     ELSE no_task

\* @session.on("output_audio_transcription_delta")
on_output_delta(delta) ==
  /\ events < MaxEvents
  /\ IF delta # <<>>
     THEN create_task(Task("output_audio_transcription_delta", "delta",
                           "teacher", delta))
     ELSE no_task

\* @session.on("user_input_transcribed")
on_user_transcribed(transcript) ==
  /\ events < MaxEvents
  /\ create_task(Task("user_input_transcribed", "transcript", "student",
                      transcript))

\* text_content of on_conversation_item:
\* getattr(item, 'text_content', None) or getattr(item, 'content', '')
item_text(item) ==
  IF item.text_content # <<>> THEN item.text_content ELSE item.content

\* speaker of on_conversation_item
item_speaker(role) ==
  IF role = "assistant" THEN "teacher"
  ELSE IF role = "user" THEN "student" ELSE "unknown"

\* @session.on("conversation_item_added")
on_conversation_item(item) ==
  /\ events < MaxEvents
  /\ IF item_text(item) = <<>>
     THEN no_task
     ELSE IF item_speaker(item.role) = "teacher"
          THEN create_task(Task("conversation_item_added", "stream",
                                "teacher", item_text(item)))
          ELSE create_task(Task("conversation_item_added", "transcript",
                                item_speaker(item.role), item_text(item)))

\* The room disconnects: the keep-alive loop of entrypoint ends.  Nothing in
\* the source cancels the tasks the handlers made.
disconnect ==
  /\ events < MaxEvents
  /\ connected
  /\ connected' = FALSE
  /\ events' = events + 1
  /\ in_flight' = {t \in DOMAIN tasks :
                     tasks[t].kind = "stream"
                     /\ tasks[t].pc \in {"publish", "sleep"}}
  /\ UNCHANGED <<tasks, wire, failures, ms_per_word, last_call, text_call>>

\* ------------------------------------------------------------------- tasks

\* An event loop where a sleeping task holds the loop: a task runs only when
\* every task made before it is over.
Runnable_blocking(t) == \A u \in 1..(t - 1) : tasks[u].pc = "done"

\* An event loop that never resumes a task from asyncio.sleep
Runnable_no_wakeup(t) ==
  /\ tasks[t].pc # "sleep"
  /\ tasks[t].pc # "start" \/ \A u \in 1..(t - 1) : tasks[u].pc # "start"

\* The event loop runs the first step of the tasks in the order in which
\* asyncio.create_task made them; after its first await a task goes on
\* whenever what it awaits is done.
Runnable(t) ==
  tasks[t].pc # "start" \/ \A u \in 1..(t - 1) : tasks[u].pc # "start"

\* room.local_participant.publish_data(packet, reliable=True): the call is
\* handed to the transport, and returns (packet.ok) or raises
Publish(packet) ==
  /\ packet.ok \/ failures < MaxFailures
  /\ wire' = Append(wire, packet)
  /\ failures' = IF packet.ok THEN failures ELSE failures + 1
  /\ UNCHANGED <<connected, events, in_flight, ms_per_word, last_call, text_call>>

\* The chunker's local state when the loop has reached the next chunk to send
\* (acc.send, with its segments) or its end.
AfterLoop(task, words, acc, segments) ==
  [task EXCEPT !.words = words,
               !.i = acc.i,
               !.current_chunk = acc.current_chunk,
               !.chunk_delay = acc.chunk_delay,
               !.segments = segments,
               !.j = 1,
               !.pc = IF acc.send THEN "publish" ELSE "complete"]

\* segments = process_mixed_content(current_chunk.strip())
LoopSegments(task, words, acc) ==
  AfterLoop(task, words, acc,
            IF acc.send THEN mixed_content[strip(acc.current_chunk)]
            ELSE <<>>)

\* RunLoop without the reset of chunk_delay after asyncio.sleep
RunLoop_no_reset(task, words) ==
  LoopSegments(task, words,
               Accumulate(words, task.i + 1, <<>>, task.chunk_delay))

\* The loop goes on with the word after words[task.i]; current_chunk and
\* chunk_delay are those of the start, or as reset after asyncio.sleep.
RunLoop(task, words) ==
  LoopSegments(task, words,
               Accumulate(words, task.i + 1, <<>>, normal_delay))

\* publish_segment: the packet it hands to publish_data
publish_segment(t, speaker, segment, ok) ==
  Packet(t, "transcript", speaker, <<segment>>, <<>>, NoInt, FALSE, <<>>, ok)

\* The completion marker: completion_data with total_chunks = chunks_sent
completion_data(t, chunks_sent, ok) ==
  Packet(t, "transcript_complete", "teacher", <<>>, <<>>, chunks_sent, FALSE,
         <<>>, ok)

\* AfterSegment with chunks_sent counting the chunks: it goes up after the
\* last segment of a chunk only
AfterSegment_per_chunk(task) ==
  [task EXCEPT !.chunks_sent = IF task.j < Len(task.segments)
                               THEN task.chunks_sent
                               ELSE task.chunks_sent + 1,
               !.j = task.j + 1,
               !.pc = IF task.j < Len(task.segments) THEN "publish"
                      ELSE "sleep"]

\* The chunker after publish_segment returned for segments[j]: chunks_sent += 1,
\* then the next segment of the chunk, or asyncio.sleep(chunk_delay).
AfterSegment(task) ==
  [task EXCEPT !.chunks_sent = task.chunks_sent + 1,
               !.j = task.j + 1,
               !.pc = IF task.j < Len(task.segments) THEN "publish"
                      ELSE "sleep"]

\* The publish_data call the chunker makes next, cur being its local state at
\* the call (cur.pc: "publish" for a segment, "complete" for the marker).
\* When the call raises, the except clause of
\* stream_teacher_response_progressively logs the error and the function
\* returns.
StreamCall(t, cur, ok) ==
  /\ Publish(IF cur.pc = "complete"
             THEN completion_data(t, cur.chunks_sent, ok)
             ELSE publish_segment(t, "teacher",
                    Tagged(cur.segments[cur.j], cur.chunks_sent, cur.words),
                    ok))
  /\ tasks' = [tasks EXCEPT ![t] =
       IF ~ok THEN [cur EXCEPT !.pc = "done", !.outcome = "caught"]
       ELSE IF cur.pc = "complete"
            THEN [cur EXCEPT !.pc = "done", !.outcome = "returned"]
            ELSE AfterSegment(cur)]

\* One step of the task of stream_teacher_response_progressively, from where
\* it is suspended (not yet started; in asyncio.sleep; in the await of
\* publish_segment with segments of the chunk left) through its next
\* publish_data call.
stream_step(t, ok) ==
  /\ tasks[t].kind = "stream"
  /\ tasks[t].pc \in {"start", "sleep", "publish"}
  /\ Runnable(t)
  /\ StreamCall(t,
                IF tasks[t].pc = "publish" THEN tasks[t]
                ELSE RunLoop(tasks[t],
                             IF tasks[t].pc = "start"
                             THEN split(tasks[t].text) ELSE tasks[t].words),
                ok)

\* TranscriptPacket without the test of the speaker: timings for everyone
TranscriptPacket_timed_all(t, speaker, math_segments, ok) ==
  Packet(t, "transcript", speaker, math_segments, <<>>, NoInt, TRUE,
         estimate_word_timings(
           ms_per_word,
           join(<<" ">>, [k \in 1..Len(math_segments) |-> <<>>]), 0),
         ok)

\* The packet publish_transcript hands to publish_data, math_segments being
\* detect_math_patterns(text).  Word timings are made for the teacher only,
\* from full_text = " ".join([seg.get("text", "") ...]): a segment has no
\* "text" key, so every part is the empty string.
TranscriptPacket(t, speaker, math_segments, ok) ==
  Packet(t, "transcript", speaker, math_segments, <<>>, NoInt,
         speaker \in {"teacher", "ai"},
         IF speaker \in {"teacher", "ai"}
         THEN estimate_word_timings(
                ms_per_word,
                join(<<" ">>, [k \in 1..Len(math_segments) |-> <<>>]), 0)
         ELSE <<>>,
         ok)

\* the segments publish_transcript takes the fragments from: those with
\* seg.get("type") == "math" and seg.get("latex")
WithLatex(math_segments) ==
  SelectSeq(math_segments,
            LAMBDA seg : seg.type = "math" /\ seg.latex \notin {NoText, <<>>})

\* math_fragments of publish_transcript: for the teacher only, the fragments
\* of the first math segment that has a latex
MathFragments(speaker, with_latex) ==
  IF speaker \in {"teacher", "ai"} /\ with_latex # <<>>
  THEN parse_math_fragments(with_latex[1].latex)
  ELSE NoFragments

\* publish_transcript
publish_transcript(t, speaker, text, ok) ==
  [TranscriptPacket(t, speaker, math_patterns[text], ok)
     EXCEPT !.mathFragments =
              MathFragments(speaker, WithLatex(math_patterns[text]))]

\* _publish / _process_and_publish: one publish_transcript call; it catches
\* and logs what publish_data raises
transcript_publish(t, ok) ==
  /\ tasks[t].kind = "transcript"
  /\ tasks[t].pc = "start"
  /\ Runnable(t)
  /\ Publish(publish_transcript(t, tasks[t].speaker, tasks[t].text, ok))
  /\ tasks' = [tasks EXCEPT ![t] =
       [@ EXCEPT !.pc = "done",
                 !.outcome = IF ok THEN "returned" ELSE "caught"]]

\* One step of _publish_realtime, segments being
\* process_mixed_content(event.transcript) and j the index of the next one.
RealtimeStep(t, task, segments, j, ok) ==
  /\ Publish(publish_segment(t, "teacher", segments[j], ok))
  /\ tasks' = [tasks EXCEPT ![t] =
       IF ~ok
       THEN [task EXCEPT !.pc = "done", !.outcome = "raised"]
       ELSE IF j < Len(segments)
            THEN [task EXCEPT !.pc = "publish", !.j = j + 1]
            ELSE [task EXCEPT !.pc = "done", !.outcome = "returned"]]

\* _publish_realtime: the next publish_segment call; nothing catches what
\* publish_data raises
realtime_publish(t, ok) ==
  /\ tasks[t].kind = "realtime"
  /\ tasks[t].pc \in {"start", "publish"}
  /\ Runnable(t)
  /\ RealtimeStep(t, tasks[t], mixed_content[tasks[t].text],
                  IF tasks[t].pc = "start" THEN 1 ELSE tasks[t].j, ok)

\* _publish_delta: one transcript_delta packet; nothing catches what
\* publish_data raises
delta_publish(t, ok) ==
  /\ tasks[t].kind = "delta"
  /\ tasks[t].pc = "start"
  /\ Runnable(t)
  /\ Publish(Packet(t, "transcript_delta", "teacher", <<>>, tasks[t].text,
                    NoInt, FALSE, <<>>, ok))
  /\ tasks' = [tasks EXCEPT ![t] =
       [@ EXCEPT !.pc = "done",
                 !.outcome = IF ok THEN "returned" ELSE "raised"]]

\* ------------------------------------------------------------------- specs

Next ==
  \/ \E transcript \in OutputTranscripts : on_output_transcribed(transcript)
  \/ \E delta \in Deltas : on_output_delta(delta)
  \/ \E transcript \in UserTranscripts : on_user_transcribed(transcript)
  \/ \E item \in Items : on_conversation_item(item)
  \/ disconnect
  \/ \E t \in DOMAIN tasks, ok \in BOOLEAN : stream_step(t, ok)
  \/ \E t \in DOMAIN tasks, ok \in BOOLEAN : transcript_publish(t, ok)
  \/ \E t \in DOMAIN tasks, ok \in BOOLEAN : realtime_publish(t, ok)
  \/ \E t \in DOMAIN tasks, ok \in BOOLEAN : delta_publish(t, ok)

Spec == Init /\ [][Next]_vars

\* A direct call timing_estimator.estimate_word_timings(text, audio_duration)
estimate_call(text, audio_duration) ==
  /\ ms_per_word' = RateAfter(ms_per_word, split(text), audio_duration)
  /\ last_call' = [called |-> TRUE, text |-> text,
                   audio_duration |-> audio_duration,
                   timings |-> estimate_word_timings(ms_per_word, text,
                                                     audio_duration)]
  /\ UNCHANGED <<room_vars, text_call>>

NextTiming ==
  \E text \in TimingTexts, audio_duration \in AudioDurations :
     estimate_call(text, audio_duration)

SpecTiming == Init /\ [][NextTiming]_vars

\* The chunker run alone: one committed teacher utterance, then the steps of
\* its task.
NextChunker ==
  \/ \E text \in ChunkerTexts :
        tasks = <<>> /\ on_conversation_item(Item("assistant", text, T_empty))
  \/ \E t \in DOMAIN tasks, ok \in BOOLEAN : stream_step(t, ok)

SpecChunker == Init /\ [][NextChunker]_vars

\* A direct call publish_transcript(room, speaker, text), run as a task
publish_transcript_call(speaker, text) ==
  /\ events < MaxEvents
  /\ create_task(Task("publish_transcript", "transcript", speaker, text))

NextTranscript ==
  \/ \E speaker \in Speakers, text \in DirectTexts :
        publish_transcript_call(speaker, text)
  \/ \E t \in DOMAIN tasks, ok \in BOOLEAN : transcript_publish(t, ok)

SpecTranscript == Init /\ [][NextTranscript]_vars

\* The next step of task t, whatever its coroutine: its publish_data call
\* returns or raises.
task_step(t) ==
  /\ t \in DOMAIN tasks
  /\ \E ok \in BOOLEAN :
        \/ stream_step(t, ok)
        \/ transcript_publish(t, ok)
        \/ realtime_publish(t, ok)
        \/ delta_publish(t, ok)

\* Task t can take its next step: it is not over, and the loop has reached
\* it.  A step is then possible, since publish_data may always return.
Ready(t) == t \in DOMAIN tasks /\ tasks[t].pc # "done" /\ Runnable(t)

\* The asyncio event loop runs every task that is ready: a task made by
\* asyncio.create_task takes its first step, and a task whose asyncio.sleep
\* or publish_data await is over is resumed.  This is weak fairness of
\* task_step(t), stated with Ready(t) as its enabling condition.
Scheduled ==
  \A t \in 1..MaxEvents : []<>(~Ready(t)) \/ []<><<task_step(t)>>_vars

\* Teacher utterances and delta events: the streams, whose publish_data
\* calls all return, and the delta tasks that run among them, whose call
\* returns or raises.
NextStreams ==
  \/ \E item \in {it \in Items : it.role = "assistant"} :
        on_conversation_item(item)
  \/ \E delta \in Deltas : on_output_delta(delta)
  \/ \E t \in DOMAIN tasks : stream_step(t, TRUE)
  \/ \E t \in DOMAIN tasks, ok \in BOOLEAN : delta_publish(t, ok)

\* The streams under an event loop that keeps scheduling its tasks
SpecStreams == Init /\ [][NextStreams]_vars /\ Scheduled

\* ------------------------------------------- the classifier's functions

\* Characters of the generated texts: the delimiter, a letter, a blank, the
\* equals sign and a digit.
TextAlphabet == {"$", "x", " ", "=", "2"}

\* every text over TextAlphabet of at most n characters
Strings(n) == UNION {[1..k -> TextAlphabet] : k \in 0..n}

T_pi == <<"p", "i">>
T_alpha == <<"a", "l", "p", "h", "a">>
T_display == <<"$", "$", "x", "$", "$">>
T_x_squared == <<"x", " ", "s", "q", "u", "a", "r", "e", "d">>
T_sqrt4 == <<"s", "q", "r", "t", "(", "4", ")">>
T_root == <<"s", "q", "u", "a", "r", "e", " ", "r", "o", "o", "t", " ", "o", "f", " ", "9">>
T_over == <<"1", " ", "o", "v", "e", "r", " ", "2">>
T_power == <<"x", " ", "t", "o", " ", "t", "h", "e", " ", "p", "o", "w", "e", "r", " ", "o", "f", " ", "3">>
\* scenario 2 of the specification: "$x^2 - 4 = 0$"
T_scenario2 == <<"$", "x", "^", "2", " ", "-", " ", "4", " ", "=", " ", "0", "$">>
\* a delimited span after a spoken indicator: "x squared $x$"
T_spoken_then_span == T_x_squared \o <<" ", "$", "x", "$">>

ClassifierTexts ==
  Strings(MaxLen)
    \cup {T_mix, T_display, T_scenario2, T_x_squared, T_spoken_then_span}

ConverterTexts ==
  Strings(MaxLen)
    \cup {T_pi, T_alpha, T_x_squared, T_sqrt4, T_root, T_over, T_power}

\* The values of the three functions on the texts above, computed once.
classified ==
  Table([text \in ClassifierTexts |-> process_mixed_content(text)])
detected ==
  Table([text \in ClassifierTexts |-> detect_math_patterns(text)])
converted ==
  Table([text \in ConverterTexts |-> convert_to_latex(text)])

TextCall(fn, text, segments, latex, of_result) ==
  [fn |-> fn, text |-> text, segments |-> segments, latex |-> latex,
   of_result |-> of_result]

\* A direct call process_mixed_content(text)
classify_call(text) ==
  /\ text_call' = TextCall("process_mixed_content", text, classified[text],
                           NoText, FALSE)
  /\ UNCHANGED <<room_vars, ms_per_word, last_call>>

\* A direct call detect_math_patterns(text)
detect_call(text) ==
  /\ text_call' = TextCall("detect_math_patterns", text, detected[text],
                           NoText, FALSE)
  /\ UNCHANGED <<room_vars, ms_per_word, last_call>>

\* A direct call convert_to_latex(text)
convert_call(text) ==
  /\ text_call' = TextCall("convert_to_latex", text, <<>>, converted[text],
                           FALSE)
  /\ UNCHANGED <<room_vars, ms_per_word, last_call>>

\* convert_to_latex called on the result of the last call of it
convert_result ==
  /\ text_call.fn = "convert_to_latex"
  /\ ~text_call.of_result
  /\ text_call' = TextCall("convert_to_latex", text_call.latex, <<>>,
                           convert_to_latex(text_call.latex), TRUE)
  /\ UNCHANGED <<room_vars, ms_per_word, last_call>>

NextText ==
  \/ \E text \in ClassifierTexts : classify_call(text)
  \/ \E text \in ClassifierTexts : detect_call(text)
  \/ \E text \in ConverterTexts : convert_call(text)
  \/ convert_result

SpecText == Init /\ [][NextText]_vars

\* ------------------------------------------------------------------ claims

\* the publish_data calls task t has made, in the order it made them
CallsOf(t) == SelectSeq(wire, LAMBDA p : p.task = t)

\* the segment packets among them
ChunksOf(t) ==
  SelectSeq(wire, LAMBDA p : p.task = t /\ p.type = "transcript")

\* the completion markers among them
MarkersOf(t) ==
  SelectSeq(wire, LAMBDA p : p.task = t /\ p.type = "transcript_complete")

\* the tasks that run stream_teacher_response_progressively
Streams == {t \in DOMAIN tasks : tasks[t].kind = "stream"}

\* C1: at most one chunk stream emits per room at a time.  When a second
\* committed teacher utterance arrives while an earlier stream still has
\* chunks pending, no chunk of the second stream is published before the
\* first stream is over; so no chunk packet of an earlier stream is ever
\* handed to the transport after a chunk packet of a later stream.
C1_OneStreamAtATime ==
  \A t1 \in Streams, t2 \in Streams :
     t1 < t2 =>
       \A k \in DOMAIN wire, m \in DOMAIN wire :
          ~(/\ k < m
            /\ wire[k].task = t2 /\ wire[k].type = "transcript"
            /\ wire[m].task = t1 /\ wire[m].type = "transcript")

\* chunks being segment packets in publish order: the k-th holds one
\* segment, whose chunk_index is k - 1
NumberedFromZero(chunks) ==
  \A k \in 1..Len(chunks) :
     /\ Len(chunks[k].segments) = 1
     /\ chunks[k].segments[1].chunk_index = k - 1

\* C2: within one call of stream_teacher_response_progressively the
\* chunk_index values of the segment packets handed to the transport, in
\* publish order, are exactly 0, 1, 2, ..., n-1.
C2_ChunkIndexInOrder ==
  \A t \in Streams : NumberedFromZero(ChunksOf(t))

\* C2 witness: a stream has handed three segment packets to the transport
C2_ThreeChunksPublished ==
  \E t \in Streams : Len(ChunksOf(t)) >= 3

\* C3: a chunk stream that is not cancelled ends with exactly one
\* transcript_complete packet, published after every chunk packet of the
\* stream, whose total_chunks is the number of chunk packets the stream
\* emitted.  (Nothing in the source cancels a stream.)
C3_OneCompletionMarker ==
  \A t \in Streams :
     tasks[t].pc = "done" =>
       /\ Len(MarkersOf(t)) = 1
       /\ CallsOf(t)[Len(CallsOf(t))].type = "transcript_complete"
       /\ CallsOf(t)[Len(CallsOf(t))].total_chunks = Len(ChunksOf(t))

\* C4: a publish failure on one chunk does not abort the stream.  When the
\* publish_data call of a chunk raised, the stream still goes through every
\* later chunk of the utterance: when it is over, its loop has passed the
\* last word and the last segment of its last chunk.
C4_FailureDoesNotAbort ==
  \A t \in Streams :
     (/\ tasks[t].pc = "done"
      /\ \E k \in DOMAIN wire :
            wire[k].task = t /\ wire[k].type = "transcript" /\ ~wire[k].ok)
     => /\ tasks[t].i >= Len(tasks[t].words)
        /\ tasks[t].j >= Len(tasks[t].segments)

\* C5: a stream that is in flight when the room disconnects makes no
\* further publish_data call after the disconnect.
C5_NoPublishAfterDisconnect ==
  \A k \in DOMAIN wire :
     wire[k].task \in in_flight => wire[k].connected

\* C6: empty or whitespace-only utterance text produces no published packet
\* of any kind on every path: every packet handed to the transport comes
\* from text that is not empty after trimming.
C6_BlankTextPublishesNothing ==
  \A k \in DOMAIN wire : strip(tasks[wire[k].task].text) # <<>>

\* calls being the publish_data calls of the task of a delta event: none
\* until the task is over and one from then on, a transcript_delta packet
\* with the delta as it came and no segments
OneDeltaPacket(task, calls) ==
  /\ Len(calls) = IF task.pc = "done" THEN 1 ELSE 0
  /\ \A k \in 1..Len(calls) :
        /\ calls[k].type = "transcript_delta"
        /\ calls[k].delta = task.text
        /\ calls[k].segments = <<>>

\* C7: every non-empty partial delta event results in exactly one
\* transcript_delta packet that carries the delta text unchanged and has no
\* segments; the delta is never classified and never chunked.
C7_DeltaForwardedAsIs ==
  \A t \in DOMAIN tasks :
     tasks[t].event = "output_audio_transcription_delta" =>
       /\ tasks[t].kind = "delta"
       /\ tasks[t].text # <<>>
       /\ OneDeltaPacket(tasks[t], CallsOf(t))

\* C7 witness: the task of a delta event has published the delta "hi"
C7_DeltaPublished ==
  \E t \in DOMAIN tasks :
     /\ tasks[t].event = "output_audio_transcription_delta"
     /\ tasks[t].pc = "done"
     /\ Len(CallsOf(t)) = 1
     /\ CallsOf(t)[1].delta = T_hi

\* calls being the publish_data calls of a stream: each is the completion
\* marker or a streaming-tagged packet of one segment
ChunkerPackets(calls) ==
  \A k \in 1..Len(calls) :
     \/ calls[k].type = "transcript_complete"
     \/ /\ calls[k].type = "transcript"
        /\ Len(calls[k].segments) = 1
        /\ calls[k].segments[1].streaming

\* calls being the publish_data calls of the task of a student or
\* unknown-role utterance: none until the task is over and one from then on,
\* a transcript packet with all segments of the text, wordTimings null and
\* no segment tagged by the chunker
OneTranscriptPacket(task, calls) ==
  /\ Len(calls) = IF task.pc = "done" THEN 1 ELSE 0
  /\ \A k \in 1..Len(calls) :
        /\ calls[k].type = "transcript"
        /\ calls[k].segments = math_patterns[task.text]
        /\ ~calls[k].timed
        /\ \A n \in 1..Len(calls[k].segments) :
              ~calls[k].segments[n].streaming

\* C8: committed utterances are routed by role.  A committed teacher
\* utterance is published only through the chunker: streaming-tagged
\* packets of one segment each, and the completion marker.  A committed
\* student or unknown-role utterance produces exactly one transcript packet
\* holding all its segments, with no word timings, no streaming metadata
\* and no transcript_complete.
C8_RoutedByRole ==
  \A t \in DOMAIN tasks :
     tasks[t].event = "conversation_item_added" =>
       IF tasks[t].speaker = "teacher"
       THEN /\ tasks[t].kind = "stream"
            /\ ChunkerPackets(CallsOf(t))
       ELSE /\ tasks[t].kind = "transcript"
            /\ tasks[t].speaker \in {"student", "unknown"}
            /\ OneTranscriptPacket(tasks[t], CallsOf(t))

\* C8 witness: a committed teacher utterance went through the chunker to its
\* completion marker, and a committed student or unknown-role utterance was
\* published
C8_BothRolesPublished ==
  \E t1 \in DOMAIN tasks, t2 \in DOMAIN tasks :
     /\ tasks[t1].event = "conversation_item_added"
     /\ tasks[t1].speaker = "teacher"
     /\ tasks[t1].outcome = "returned"
     /\ ChunksOf(t1) # <<>>
     /\ tasks[t2].event = "conversation_item_added"
     /\ tasks[t2].speaker \in {"student", "unknown"}
     /\ tasks[t2].pc = "done"
     /\ Len(CallsOf(t2)) = 1

\* C9: each committed utterance is emitted to the room at most once.  When
\* the same utterance is reported by conversation_item_added and by
\* output_audio_transcribed (teacher) or user_input_transcribed (student),
\* its segments are published by one of the two handlers only.
C9_EmittedOnce ==
  \A t1 \in DOMAIN tasks, t2 \in DOMAIN tasks :
     ~(/\ tasks[t1].event = "conversation_item_added"
       /\ tasks[t2].event \in {"output_audio_transcribed",
                               "user_input_transcribed"}
       /\ tasks[t1].speaker = tasks[t2].speaker
       /\ tasks[t1].text = tasks[t2].text
       /\ ChunksOf(t1) # <<>>
       /\ ChunksOf(t2) # <<>>)

\* C10: rescaling by a supplied audio duration applies to that call only.
\* A call of estimate_word_timings without audio_duration uses the default
\* rate of 60000 / words_per_minute ms per word, whatever the earlier calls
\* were given.
C10_RescaleThisCallOnly ==
  (last_call.called /\ last_call.audio_duration = 0) =>
     last_call.timings
       = estimate_word_timings(InitialRate, last_call.text, 0)

\* C11: the word timings estimate_word_timings returns are contiguous and
\* start at zero: the first startTime is 0 and each endTime is the startTime
\* of the next entry, for every text, with or without an audio duration.
C11_TimingsContiguous ==
  last_call.called =>
    /\ last_call.timings # <<>> => last_call.timings[1].startTime = 0
    /\ \A k \in 1..(Len(last_call.timings) - 1) :
          last_call.timings[k].endTime = last_call.timings[k + 1].startTime

\* C11 witness: a call with an audio duration returned the timings of a math
\* word followed by another word
C11_MathWordTimed ==
  /\ last_call.called
  /\ last_call.audio_duration # 0
  /\ Len(last_call.timings) >= 2
  /\ last_call.timings[1].isMath

\* C12: given an audio duration D over N > 0 words, the last endTime (the sum
\* of the word durations) is D to within one word's duration, for every mix
\* of math and plain words.  One word's duration is taken at its largest
\* here, that of a math word: 1.5 * D / N.
C12_RescaledSumIsDuration ==
  (last_call.called /\ last_call.audio_duration # 0
     /\ last_call.timings # <<>>) =>
    LET N == Len(last_call.timings)
        D == last_call.audio_duration
        sum == last_call.timings[N].endTime
    IN  /\ 2 * N * (D - sum) <= 3 * D
        /\ 2 * N * (sum - D) <= 3 * D

\* The claim's conditions for the buffer to be emitted right after a word is
\* added: n is the number of words in the buffer with that word, last tells
\* whether it is the last word of the utterance.
EmitCondition(n, word, last) ==
  \/ n >= 3
  \/ word[Len(word)] \in {".", "!", "?", ",", ";", ":"}
  \/ \E keyword \in math_triggers : Contains(lower(word), keyword)
  \/ last

\* chunk being the words of the buffer that was emitted when words[i] was
\* added: the conditions hold of its last word and of no word before it
EmittedWhenDue(words, i, chunk) ==
  /\ chunk # <<>>
  /\ EmitCondition(Len(chunk), chunk[Len(chunk)], i = Len(words))
  /\ \A m \in 1..(Len(chunk) - 1) : ~EmitCondition(m, chunk[m], FALSE)

\* C13: the chunker emits the buffer right after a word is added if and only
\* if the buffer has reached 3 words, or the word ends in one of . ! ? , ; :,
\* or it contains a math-trigger keyword, or it is the last word.  So every
\* emitted buffer ends with a word of which a condition holds and holds no
\* earlier word of which one does, and no word is left in the buffer when the
\* loop ends.
C13_EmittedIffDue ==
  \A t \in Streams :
     /\ tasks[t].pc \in {"publish", "sleep"} =>
          EmittedWhenDue(tasks[t].words, tasks[t].i,
                         split(tasks[t].current_chunk))
     /\ tasks[t].pc = "complete" \/ tasks[t].outcome = "returned" =>
          tasks[t].current_chunk = <<>>

\* C13 witness: a buffer of two words was emitted for a math-trigger keyword
\* in upper case
C13_MathWordEmitted ==
  \E t \in Streams :
     /\ tasks[t].pc = "sleep"
     /\ tasks[t].words[tasks[t].i] = <<"X", SUP2>>
     /\ Len(split(tasks[t].current_chunk)) = 2
     /\ tasks[t].i < Len(tasks[t].words)

\* C14: whenever the word that closes a chunk ends in one of . ! ? , ; :,
\* the pacing delay after that chunk is the lengthened one, 150 ms, whatever
\* the size of the buffer when the chunk closed.
C14_PauseAfterPunctuation ==
  \A t \in Streams :
     (/\ tasks[t].pc = "sleep"
      /\ tasks[t].words[tasks[t].i][Len(tasks[t].words[tasks[t].i])]
           \in {".", "!", "?", ",", ";", ":"})
     => tasks[t].chunk_delay = 150

\* chunks being the segment packets of the stream of scenario 3 when it is
\* over: at least 3, the first is the chunk "Great question!", and the one
\* whose content holds "square root" is classified math
Scenario3Chunks(chunks) ==
  /\ Len(chunks) >= 3
  /\ chunks[1].segments[1].content = SubSeq(T_scenario3, 1, 15)
  /\ \E k \in 1..Len(chunks) :
        /\ Contains(chunks[k].segments[1].content,
                    <<"s", "q", "u", "a", "r", "e", " ", "r", "o", "o", "t">>)
        /\ chunks[k].segments[1].type = "math"

\* C15: the teacher utterance "Great question! The square root of 16 is 4."
\* streamed with the default thresholds yields at least 3 chunks, the pacing
\* delay right after the chunk ending in "question!" is the lengthened one,
\* and the chunk holding the square-root clause is classified math.
C15_Scenario3 ==
  \A t \in Streams :
     tasks[t].text = T_scenario3 =>
       /\ (tasks[t].pc = "sleep" /\ tasks[t].i = 2) =>
             tasks[t].chunk_delay = 150
       /\ tasks[t].outcome = "returned" => Scenario3Chunks(ChunksOf(t))

\* C15 witness: the stream of scenario 3 has published its completion marker
C15_Scenario3Streamed ==
  \E t \in Streams :
     /\ tasks[t].text = T_scenario3
     /\ tasks[t].outcome = "returned"
     /\ MarkersOf(t) # <<>>

\* The last direct call was a call of the classifier: process_mixed_content
\* or the detect_math_patterns it is built on.
Classified ==
  text_call.fn \in {"process_mixed_content", "detect_math_patterns"}

\* C16: for every input text, classification returns exactly one math
\* segment when the text contains a recognized math indicator and otherwise
\* exactly one text segment, and no returned segment has empty or
\* whitespace-only content.
C16_OneSegmentByIndicator ==
  Classified =>
    /\ Len(text_call.segments) = 1
    /\ text_call.segments[1].type
         = (IF has_math(text_call.text) THEN "math" ELSE "text")
    /\ \A k \in DOMAIN text_call.segments :
          strip(text_call.segments[k].content) # <<>>

\* m being a delimiter-enclosed span of text found by the classifier: seg is
\* a math segment with confidence 0.98 and the delimited source, its content
\* is the span with its delimiters and its latex the span without them
DelimitedSegment(text, m, seg) ==
  /\ seg.type = "math"
  /\ seg.confidence = 98
  /\ seg.source = "latex_delimited"
  /\ seg.content = SubSeq(text, m.start, m.end - 1)
  /\ seg.latex = Group(text, m, 1)

\* every span of spans has its segment among segments
SpansClassified(text, spans, segments) ==
  \A k \in DOMAIN spans :
     \E j \in DOMAIN segments : DelimitedSegment(text, spans[k], segments[j])

\* C17: every delimiter-enclosed math span found by the classifier becomes a
\* math segment with confidence 0.98 and a delimited source, whatever
\* heuristic indicators the same text also contains; its content keeps the
\* delimiters and its notation is the span without them.
C17_DelimitedSpanKept ==
  text_call.fn = "process_mixed_content" =>
    SpansClassified(text_call.text,
                    re_finditer(latex_pattern, text_call.text, FALSE),
                    text_call.segments)

\* C18: the notation converter is idempotent: convert_to_latex applied to a
\* result of convert_to_latex returns it unchanged, for every input,
\* including Greek-letter names, roots, fractions and exponent phrases.
C18_Idempotent ==
  (text_call.fn = "convert_to_latex" /\ text_call.of_result) =>
    text_call.latex = text_call.text

\* C19: no publishing task ends with an unhandled exception: what
\* publish_data raises on any path (chunk stream, single-shot transcript,
\* realtime segment publish, delta publish) is caught and logged inside the
\* task that made the call.
C19_NoUnhandledException ==
  \A t \in DOMAIN tasks : tasks[t].outcome # "raised"

\* Task t has not started, every task made before it has, and its first
\* step publishes a delta or a student utterance.
WaitingToPublish(t) ==
  /\ tasks[t].pc = "start"
  /\ \A u \in 1..(t - 1) : tasks[u].pc # "start"
  /\ \/ tasks[t].kind = "delta"
     \/ tasks[t].kind = "transcript" /\ tasks[t].speaker = "student"

\* C20: the pacing delay of a chunk stream is a cooperative yield: while a
\* teacher stream is suspended in asyncio.sleep between two chunks, the task
\* of a delta event or of a student utterance event that arrived meanwhile
\* can make its publish_data call at once, without waiting for the stream
\* to finish.
C20_SleepYields ==
  \A s \in Streams, t \in DOMAIN tasks :
     (tasks[s].pc = "sleep" /\ t > s /\ WaitingToPublish(t)) =>
        ENABLED (delta_publish(t, TRUE) \/ transcript_publish(t, TRUE))

\* C20 witness: on the wire, the packet of a delta or of a student utterance
\* lies between two chunk packets of one stream
C20_PacketBetweenChunks ==
  \E i \in DOMAIN wire, j \in DOMAIN wire, k \in DOMAIN wire :
     /\ i < j /\ j < k
     /\ wire[i].task \in Streams /\ wire[i].type = "transcript"
     /\ wire[k].task = wire[i].task /\ wire[k].type = "transcript"
     /\ wire[j].task > wire[i].task
     /\ \/ wire[j].type = "transcript_delta"
        \/ wire[j].type = "transcript" /\ wire[j].speaker = "student"

\* the word that closed the chunk stream t has just sent ends in punctuation
ClosedByPunctuation(t) ==
  tasks[t].words[tasks[t].i][Len(tasks[t].words[tasks[t].i])]
    \in {".", "!", "?", ",", ";", ":"}

\* C21: the lengthened pacing delay never carries over: the delay that
\* follows a chunk whose closing word does not end in punctuation is always
\* 80 ms, whatever chunks preceded it.
C21_DelayReset ==
  \A t \in Streams :
     (tasks[t].pc = "sleep" /\ ~ClosedByPunctuation(t)) =>
        tasks[t].chunk_delay = 80

\* C21 witness: a stream sleeps after a chunk closed by a word without
\* punctuation, its first chunk having been closed by punctuation
C21_PlainAfterPause ==
  \E t \in Streams :
     /\ tasks[t].pc = "sleep"
     /\ tasks[t].i >= 2
     /\ ~ClosedByPunctuation(t)
     /\ tasks[t].words[1][Len(tasks[t].words[1])] \in {".", ","}

\* the confidence mappings of calculate_math_confidence that match text
MatchedMappings(text) ==
  {k \in DOMAIN confidence_indicators :
     re_search(confidence_indicators[k].pat, text, TRUE)}

\* the largest of the base 0.5 and the values in hundredths of the mappings
\* matched
LargestOf(matched) ==
  CHOOSE c \in {50} \cup {confidence_indicators[k].conf : k \in matched} :
     \A k \in matched : confidence_indicators[k].conf <= c

\* the segments of the last call that the heuristic path made math
HeuristicMath ==
  {k \in DOMAIN text_call.segments :
     text_call.segments[k].type = "math" /\ text_call.segments[k].enhanced}

\* C22: the confidence of a heuristic math segment is the maximum of the
\* base 0.5 and the values of all confidence mappings that match its text,
\* never their sum: it lies in [0.5, 0.95], is 0.5 when no mapping matches,
\* and does not depend on how many mappings match.
C22_ConfidenceIsMaximum ==
  Classified =>
    \A k \in HeuristicMath :
       /\ text_call.segments[k].confidence
            = LargestOf(MatchedMappings(text_call.segments[k].content))
       /\ text_call.segments[k].confidence >= 50
       /\ text_call.segments[k].confidence <= 95
       /\ MatchedMappings(text_call.segments[k].content) = {} =>
             text_call.segments[k].confidence = 50

\* C22 witness: a heuristic math segment whose text matches two mappings
C22_TwoMappingsMatch ==
  /\ Classified
  /\ \E k \in HeuristicMath :
        Cardinality(MatchedMappings(text_call.segments[k].content)) >= 2

\* word is a math token: it holds a digit or one of + - * / = ^ ( )
MathToken(word) ==
  \E p \in DOMAIN word :
     word[p] \in Digits \cup {"+", "-", "*", "/", "=", "^", "(", ")"}

\* The time at which entry k of timings starts when every entry before it
\* lasts the base value, times 1.5 when flagged isMath; in halves of
\* 1/base.den ms, base being the fraction base.num / base.den.
StartOf(timings, k, base) ==
  base.num * (2 * (k - 1)
              + Cardinality({j \in 1..(k - 1) : timings[j].isMath}))

\* timings are those of words lasting base ms each, 1.5 * base when flagged
TimedAtBase(timings, base) ==
  \A k \in DOMAIN timings :
     /\ timings[k].isMath = MathToken(timings[k].word)
     /\ timings[k].startTime = StartOf(timings, k, base) \div (2 * base.den)
     /\ timings[k].endTime = StartOf(timings, k + 1, base) \div (2 * base.den)

\* C23: in estimate_word_timings every word's duration is the per-word base
\* value, multiplied by 1.5 exactly when the word is a math token, and isMath
\* is true exactly for those words; at the default 150 words per minute and
\* without an audio duration a plain word lasts 400 ms and a math word 600.
C23_MathFactor ==
  last_call.called =>
    /\ TimedAtBase(last_call.timings, ms_per_word)
    /\ (last_call.audio_duration = 0 /\ ms_per_word = InitialRate) =>
          \A k \in DOMAIN last_call.timings :
             last_call.timings[k].endTime - last_call.timings[k].startTime
               = (IF MathToken(last_call.timings[k].word) THEN 600 ELSE 400)

\* C23 witness: a call without audio duration at the default rate, on a text
\* with a math word and a plain word
C23_MathAndPlainAtDefault ==
  /\ last_call.called
  /\ last_call.audio_duration = 0
  /\ ms_per_word = InitialRate
  /\ \E j \in DOMAIN last_call.timings, k \in DOMAIN last_call.timings :
        last_call.timings[j].isMath /\ ~last_call.timings[k].isMath

\* the words of the entries of a wordTimings list
TimedWords(wordTimings) ==
  [k \in DOMAIN wordTimings |-> wordTimings[k].word]

\* packet is what publish_transcript published for text: for the teacher or
\* ai its wordTimings hold the words of the text in order, for anyone else
\* wordTimings and mathFragments are null
TimingsByRole(packet, text) ==
  IF packet.speaker \in {"teacher", "ai"}
  THEN packet.timed /\ TimedWords(packet.wordTimings) = split(text)
  ELSE ~packet.timed /\ packet.mathFragments = NoFragments

\* C24: when publish_transcript runs for a teacher (or ai) speaker, the
\* wordTimings of the published packet hold one entry per
\* whitespace-separated word of the utterance text, in order; for any other
\* speaker wordTimings and mathFragments are null.
C24_TeacherWordTimings ==
  \A p \in DOMAIN wire :
     tasks[wire[p].task].kind = "transcript" =>
        TimingsByRole(wire[p], tasks[wire[p].task].text)

\* One step of a stream, from its local state old to new.  When the step
\* cut a chunk, the chunk holds the 1 to 3 words that follow those of the
\* chunks before it, in order; when it ended the loop, no word was left and
\* the buffer is empty.
ChunkCut(old, new) ==
  new.i # old.i =>
    IF new.i <= Len(new.words)
    THEN /\ new.i - old.i \in 1..3
         /\ new.current_chunk
              = join(<<" ">>, SubSeq(new.words, old.i + 1, new.i))
    ELSE /\ old.i = Len(new.words)
         /\ new.current_chunk = <<>>

\* C25: the chunks of one stream partition the utterance's word sequence:
\* every word is in exactly one chunk, chunks hold consecutive words in the
\* original order, no chunk is empty and none has more than 3 words; when
\* the stream completes the pending buffer is empty.
C25_ChunksPartition ==
  [][\A t \in DOMAIN tasks :
        tasks[t].kind = "stream" =>
          /\ ChunkCut(tasks[t], tasks'[t])
          /\ tasks'[t].outcome = "returned" =>
                /\ tasks'[t].i = Len(tasks'[t].words) + 1
                /\ tasks'[t].current_chunk = <<>>]_vars

\* C25 witness: a stream of more than 3 words has completed
C25_LongStreamCompleted ==
  \E t \in Streams :
     /\ tasks[t].outcome = "returned"
     /\ Len(tasks[t].words) > 3
     /\ tasks[t].chunks_sent >= 2

\* task sleeps after a chunk of k segments, chunks being the segment packets
\* it has published: the last k of them carry the k segments of the chunk,
\* with consecutive chunk_index values up to the last one
ChunkPublished(task, k, chunks) ==
  /\ task.j = k + 1
  /\ Len(chunks) >= k
  /\ Len(chunks) = task.chunks_sent
  /\ \A m \in 1..k :
        /\ chunks[Len(chunks) - k + m].segments[1].content
             = task.segments[m].content
        /\ chunks[Len(chunks) - k + m].segments[1].chunk_index
             = Len(chunks) - k + m - 1

\* every completion marker among markers reports the number of the segment
\* packets chunks, which is the last chunk_index plus one
MarkerCountsSegments(markers, chunks) ==
  \A m \in DOMAIN markers :
     /\ markers[m].total_chunks = Len(chunks)
     /\ chunks # <<>> =>
           markers[m].total_chunks
             = chunks[Len(chunks)].segments[1].chunk_index + 1

\* C26: the stream counter counts published segments, not word groups: a
\* chunk whose text classifies into k segments publishes k packets with k
\* consecutive chunk_index values and is followed by a single pacing delay,
\* and total_chunks in the completion marker is the number of segment
\* packets published, the last chunk_index plus one.
C26_CounterCountsSegments ==
  \A t \in Streams :
     /\ tasks[t].pc = "sleep" =>
           ChunkPublished(tasks[t], Len(tasks[t].segments), ChunksOf(t))
     /\ MarkerCountsSegments(MarkersOf(t), ChunksOf(t))

\* C26 witness: a stream sleeps after a chunk of more than one segment
C26_ChunkOfManySegments ==
  \E t \in Streams :
     tasks[t].pc = "sleep" /\ Len(tasks[t].segments) >= 2

\* every segment packet of chunks carries the estimate
AllEstimated(chunks, estimate) ==
  \A k \in DOMAIN chunks : chunks[k].segments[1].total_estimated = estimate

\* no completion marker of markers reports less than the estimate
NoneBelow(markers, estimate) ==
  \A m \in DOMAIN markers : estimate <= markers[m].total_chunks

\* C27: every segment of one stream carries the same total_estimated value,
\* floor(wordCount / 3), and in a stream that completes this value never
\* exceeds the total_chunks reported by its transcript_complete.
C27_EstimateIsLowerBound ==
  \A t \in Streams :
     /\ AllEstimated(ChunksOf(t), Len(split(tasks[t].text)) \div 3)
     /\ NoneBelow(MarkersOf(t), Len(split(tasks[t].text)) \div 3)

\* C27 witness: a completed stream of at least 3 words reports more chunks
\* than it estimated
C27_MoreChunksThanEstimated ==
  \E t \in Streams :
     /\ tasks[t].outcome = "returned"
     /\ Len(tasks[t].words) >= 3
     /\ MarkersOf(t) # <<>>
     /\ MarkersOf(t)[1].total_chunks > Len(tasks[t].words) \div 3

\* position p of the wire holds a teacher transcript_complete packet that
\* was published (its publish_data call returned)
TeacherMarkerAt(p) ==
  /\ wire[p].type = "transcript_complete"
  /\ wire[p].speaker = "teacher"
  /\ wire[p].ok

\* the position of the last teacher transcript_complete before position m
\* of the wire, 0 when there is none
PreviousMarker(m) ==
  IF \E p \in 1..(m - 1) : TeacherMarkerAt(p)
  THEN CHOOSE p \in 1..(m - 1) :
         /\ TeacherMarkerAt(p)
         /\ \A q \in (p + 1)..(m - 1) : ~TeacherMarkerAt(q)
  ELSE 0

\* the positions after position from and before position m that hold a
\* published streaming-tagged teacher segment packet
TaggedBetween(from, m) ==
  {p \in (from + 1)..(m - 1) :
     /\ wire[p].type = "transcript"
     /\ wire[p].speaker = "teacher"
     /\ wire[p].ok
     /\ wire[p].segments[1].streaming}

\* C28: as seen on the transport, every teacher transcript_complete packet
\* reports a total_chunks equal to the number of streaming-tagged teacher
\* segment packets published since the previous teacher transcript_complete
\* (or since the start), for any arrival order of committed teacher
\* utterances.
C28_MarkerCountsSinceLast ==
  \A m \in DOMAIN wire :
     TeacherMarkerAt(m) =>
        wire[m].total_chunks = Cardinality(TaggedBetween(PreviousMarker(m), m))

\* one of the packets carries the delimited span m of text as a math
\* segment with the delimited source and confidence 0.98
SpanDelivered(text, m, packets) ==
  \E p \in DOMAIN packets :
     \E j \in DOMAIN packets[p].segments :
        /\ packets[p].segments[j].type = "math"
        /\ packets[p].segments[j].source = "latex_delimited"
        /\ packets[p].segments[j].confidence = 98
        /\ packets[p].segments[j].latex = Group(text, m, 1)

\* every delimited span of spans was delivered by the packets
SpansDelivered(text, spans, packets) ==
  \A k \in DOMAIN spans : SpanDelivered(text, spans[k], packets)

\* C29: a delimiter-enclosed math span inside a committed utterance reaches
\* the room as one math segment with the delimited source and confidence
\* 0.98 on every delivery path: through the progressive chunker for teacher
\* utterances and through the single-shot path for student utterances.
C29_DelimitedOnEveryPath ==
  \A t \in DOMAIN tasks :
     (tasks[t].kind \in {"stream", "transcript"}
        /\ tasks[t].outcome = "returned") =>
       SpansDelivered(tasks[t].text,
                      re_finditer(latex_pattern, tasks[t].text, FALSE),
                      CallsOf(t))

\* the stream of task t has published its transcript_complete
MarkerPublished(t) ==
  \E p \in DOMAIN wire :
     wire[p].task = t /\ wire[p].type = "transcript_complete" /\ wire[p].ok

\* task t streams an utterance that has words
StreamsWords(t) ==
  /\ t \in DOMAIN tasks
  /\ tasks[t].kind = "stream"
  /\ split(tasks[t].text) # <<>>

\* C30: every chunk stream over a finite non-empty utterance terminates:
\* when none of its publish calls fails and the event loop keeps scheduling
\* its task, the stream eventually publishes its transcript_complete and is
\* over, also when other streams and delta events run concurrently.
C30_StreamTerminates ==
  \A t \in 1..MaxEvents :
     StreamsWords(t) ~> (MarkerPublished(t) /\ tasks[t].pc = "done")

\* C30, the case: a stream of several chunks has published its marker, and
\* a packet of another stream or of a delta task lies between two of its
\* packets.
C30_CompletedAmongOthers ==
  \E t \in DOMAIN tasks :
     /\ StreamsWords(t)
     /\ MarkerPublished(t)
     /\ \E p, q, r \in DOMAIN wire :
           /\ p < q /\ q < r
           /\ wire[p].task = t /\ wire[r].task = t
           /\ wire[q].task # t
           /\ tasks[wire[q].task].kind \in {"stream", "delta"}

====
